---------------------------- MODULE Spec2Model ----------------------------
(***************************************************************************)
(* Model of the OOM helpers of stress-ng (core out-of-memory code):        *)
(*   stress_set_adjustment(), stress_set_oom_adjustment() and the          *)
(*   fork/wait/escalate loop of stress_oomable_child().                    *)
(*                                                                         *)
(* Two specifications share the module:                                    *)
(*   Spec     one invocation of stress_oomable_child(), parent side;       *)
(*   AdjSpec  one call of stress_set_oom_adjustment().                     *)
(* The operating system (fork, waitpid, open, write, the clock, the        *)
(* continuation flag) is the environment: its results are drawn with \E.   *)
(***************************************************************************)
EXTENDS Integers, Sequences, FiniteSets, TLC

-----------------------------------------------------------------------------
(* Bounds of the model *)

\* children forked in one invocation
MaxForks == 7
\* failed fork() calls in one invocation
MaxForkFails == 1
MaxLiveForks == 3
\* last instant of the model's clock
MaxTime == 1
\* exit codes 0..MaxExit (and 255) are drawn for a normally exiting child
MaxExit == 2

-----------------------------------------------------------------------------
(* Linux signal and errno numbers, exit codes *)

SIGABRT == 6
SIGBUS == 7
SIGKILL == 9
SIGSEGV == 11
SIGALRM == 14
SIGTERM == 15

ENOENT == 2
EINTR == 4
ECHILD == 10
EAGAIN == 11
ENOMEM == 12
EACCES == 13
EINVAL == 22
ENOSYS == 38

EXIT_SUCCESS == 0

OPT_FLAGS_OOMABLE == "OPT_FLAGS_OOMABLE"
OPT_FLAGS_NO_OOM_ADJUST == "OPT_FLAGS_NO_OOM_ADJUST"
\* a null args pointer; a non-null one is <<instance>>
NULL == <<>>

-----------------------------------------------------------------------------
VARIABLES
    \* ---- stress_oomable_child(), parent side
    pc,           \* "again" | "rewait" | "report" | "done"
    ooms, segvs, buserrs, rc, signal_idx,
    not_quiet,    \* !(flag & STRESS_OOMABLE_QUIET)
    retval,       \* value returned by stress_oomable_child()
    summary,      \* the restart summary lines emitted at report:
    \* ---- environment of the supervisor
    g_opt_flags,  \* policy bits (shared with the adjuster)
    keep_going,   \* what stress_continue(args) returns
    now, time_end, time_start,
    child,        \* "none" | "running" | "reaped"
    \* ---- history of the invocation
    forkCalls,    \* number of fork() calls made
    forkFails,    \* number of them that failed
    sent,         \* signals delivered by shim_kill(), in order
    childSigs,    \* those of them delivered to the current child
    died,         \* signaled deaths reaped, by kind
    waitres,      \* outcome of the last waitpid(): <<kind, value>>
    path,         \* the way the invocation returned
    forkErr,      \* errno of the last failed fork(), 0 when none failed
    live,         \* children forked and neither reaped nor gone
    asked,        \* pids the parent handed to stress_process_oomed()
    \* ---- stress_set_oom_adjustment() / stress_set_adjustment()
    apc,          \* "idle" | "start" | "open" | "write" | "ret" | "done"
    args,         \* NULL or <<args->instance>>
    killable, uid, euid,
    high_priv, make_killable, procname, str, i, ret,
    \* ---- history of the adjuster call
    nwrites,      \* write() calls made by the current stress_set_adjustment()
    onlyRetry,    \* every one of them failed with EAGAIN or EINTR
    wrote,        \* set of <<procname, text>> handed to write()
    opened,       \* set of procnames handed to open()
    nopen,        \* descriptors currently open
    result,       \* procname -> <<how the call on it ended, errno>>
    n,            \* what the last write() returned
    \* ---- stress_process_oomed()
    dpc,          \* "idle" | "open" | "read" | "close" | "done"
    pid,          \* the pid asked about
    fd,           \* descriptors on /dev/kmsg currently open
    oomed,        \* bool oomed
    kmsg,         \* the records read() has returned so far
    dret,         \* <<>> until the call returns, then <<returned value>>
    \* ---- stress_oomable_child(), child side
    cpc,          \* "idle" | the next statement of the child | "exited"
    flag,         \* the flag argument: set of STRESS_OOMABLE_ bits
    steps,        \* the calls the child has made, in order
    seen,         \* what each check of the child saw
    crc,          \* the child's copy of rc
    cexit         \* <<>> until the child calls _exit(), then <<status>>

supVars == <<pc, ooms, segvs, buserrs, rc, signal_idx, not_quiet, retval,
             summary, keep_going, now, time_end, time_start, child,
             forkCalls, forkFails, sent, childSigs, died, waitres, path,
             forkErr, live, asked>>
adjVars == <<apc, args, killable, uid, euid, high_priv, make_killable,
             procname, str, i, ret, nwrites, onlyRetry, wrote, opened,
             nopen, result, n>>
detVars == <<dpc, pid, fd, oomed, kmsg, dret>>
chVars == <<cpc, flag, steps, seen, crc, cexit>>
vars == <<supVars, adjVars, detVars, chVars, g_opt_flags>>

-----------------------------------------------------------------------------
(* stress_oomable_child(): helpers *)

\* static const int signals[] (0-based in C, 1-based here)
signals_EarlyTerm == <<SIGALRM, SIGALRM, SIGALRM, SIGTERM, SIGTERM, SIGKILL>>

signals == <<SIGALRM, SIGALRM, SIGALRM, SIGALRM, SIGTERM, SIGKILL>>

\* signals[idx]
SignalAt(idx) == signals[idx + 1]

\* the wait-status encoding the kernel hands to waitpid()
ExitStatus(code) == (code % 256) * 256
SignalStatus(sig, core) == sig + (IF core THEN 128 ELSE 0)

\* the <sys/wait.h> decoders
WTERMSIG(status) == status % 128
WIFSIGNALED(status) == WTERMSIG(status) # 0 /\ WTERMSIG(status) # 127
WEXITSTATUS_SignalDerived(status) ==
    IF WIFSIGNALED(status) THEN 128 + WTERMSIG(status)
    ELSE (status \div 256) % 256

WEXITSTATUS(status) == (status \div 256) % 256

\* the pre-spawn check at the label again:
StopBeforeSpawn_NoDeadline(cont, t, tend) == ~cont

StopBeforeSpawn(cont, t, tend) == ~cont \/ t > tend

\* "Keep trying if we are out of resources"
ForkRetryable_OnlyEagain(e) == e = EAGAIN

ForkRetryable(e) == e = EAGAIN \/ e = ENOMEM

\* "If we got killed by OOM killer"
IsOomKill_LastSent(status, idx) ==
    (idx = 0 \/ SignalAt(idx - 1) # SIGKILL) /\ WTERMSIG(status) = SIGKILL

IsOomKill(status, idx) ==
    SignalAt(idx) # SIGKILL /\ WTERMSIG(status) = SIGKILL

\* the branch taken after a successful waitpid()
Classify_IgnoreOomable(status, idx, flags) ==
    IF ~WIFSIGNALED(status) THEN "status"
    ELSE IF WTERMSIG(status) = SIGBUS THEN "buserr"
    ELSE IF IsOomKill(status, idx) THEN "oom_restart"
    ELSE IF WTERMSIG(status) = SIGSEGV THEN "segv"
    ELSE "status"

Classify(status, idx, flags) ==
    IF ~WIFSIGNALED(status) THEN "status"
    ELSE IF WTERMSIG(status) = SIGBUS THEN "buserr"
    ELSE IF IsOomKill(status, idx) THEN
        IF OPT_FLAGS_OOMABLE \in flags THEN "oom_stop" ELSE "oom_restart"
    ELSE IF WTERMSIG(status) = SIGSEGV THEN "segv"
    ELSE "status"

\* "No longer alive?": the wait error that goes straight to report
WaitGivesUp_OnEintrToo(e) == e = ECHILD \/ e = EINTR

WaitGivesUp(e) == e = ECHILD

\* ++signal_idx
NextIndex_Wrap(idx) == (idx + 1) % Len(signals)

NextIndex(idx) == idx + 1

\* ++signal_idx >= SIZEOF_ARRAY(signals)
Exhausted_OneLate(idx) == idx > Len(signals)

Exhausted(idx) == idx >= Len(signals)

\* where the parent goes once the schedule is used up: goto report
AfterExhaustion_Restart == "again"

AfterExhaustion == "report"

\* (ooms + segvs + buserrs > 0) && not_quiet
Reports_EvenQuiet(o, s, b, nq) == o + s + b > 0

Reports(o, s, b, nq) == (o + s + b > 0) /\ nq

\* buserrs++, ooms++, segvs++ of the restart branches: <<ooms, segvs, buserrs>>
CountRestart_SegvAsBus(branch) ==
    << ooms + (IF branch = "oom_restart" THEN 1 ELSE 0),
       segvs,
       buserrs + (IF branch \in {"buserr", "segv"} THEN 1 ELSE 0) >>

CountRestart(branch) ==
    << ooms + (IF branch = "oom_restart" THEN 1 ELSE 0),
       segvs + (IF branch = "segv" THEN 1 ELSE 0),
       buserrs + (IF branch = "buserr" THEN 1 ELSE 0) >>

\* the pids the parent hands to stress_process_oomed() between a successful
\* waitpid() and its choice of branch: it makes no such call
ConsultsDetector_OnKill(status) ==
    IF WTERMSIG(status) = SIGKILL THEN {"pid"} ELSE {}

ConsultsDetector(status) == {}

\* int rc = EXIT_SUCCESS;
InitialRc_Failure == EXIT_SUCCESS + 1

InitialRc == EXIT_SUCCESS

-----------------------------------------------------------------------------
(* stress_oomable_child(): environment *)

ForkErrnos == {EAGAIN, ENOMEM, ENOSYS}
WaitErrnos == {ECHILD, EINTR, EINVAL}
DeathSignals == {SIGABRT, SIGBUS, SIGKILL, SIGSEGV, SIGALRM, SIGTERM}
ExitCodes == (0 .. MaxExit) \cup {255}

\* the kind of a signaled death, from what happened (not from the code's test)
DeathKind(sig, delivered) ==
    IF sig = SIGBUS THEN "bus"
    ELSE IF sig = SIGSEGV THEN "segv"
    ELSE IF sig = SIGKILL /\ delivered < 5 THEN "oom"
    ELSE "other"

adjIdle ==
    /\ apc = "idle" /\ args = NULL /\ killable = FALSE /\ uid = 0 /\ euid = 0
    /\ high_priv = FALSE /\ make_killable = FALSE /\ procname = "" /\ str = <<>>
    /\ i = 0 /\ ret = 0 /\ nwrites = 0 /\ onlyRetry = TRUE /\ wrote = {}
    /\ opened = {} /\ nopen = 0 /\ result = <<>> /\ n = 0

detIdle ==
    /\ dpc = "idle" /\ pid = 0 /\ fd = 0 /\ oomed = FALSE /\ kmsg = <<>>
    /\ dret = <<>>

chIdle ==
    /\ cpc = "idle" /\ flag = {} /\ steps = <<>> /\ seen = <<>>
    /\ crc = 0 /\ cexit = <<>>

supIdle ==
    /\ pc = "idle" /\ ooms = 0 /\ segvs = 0 /\ buserrs = 0 /\ rc = 0
    /\ signal_idx = 0 /\ not_quiet = FALSE /\ retval = <<>> /\ summary = <<>>
    /\ keep_going = TRUE /\ now = 0 /\ time_end = 0 /\ time_start = 0
    /\ child = "none" /\ forkCalls = 0 /\ forkFails = 0 /\ sent = <<>>
    /\ childSigs = <<>> /\ died = <<>> /\ waitres = <<"none", 0>>
    /\ path = "idle" /\ forkErr = 0 /\ live = 0 /\ asked = {}

Init ==
    /\ pc = "again"
    /\ ooms = 0 /\ segvs = 0 /\ buserrs = 0
    /\ rc = InitialRc
    /\ signal_idx = 0
    /\ not_quiet \in BOOLEAN
    /\ retval = <<>>
    /\ summary = <<>>
    /\ g_opt_flags \in SUBSET {OPT_FLAGS_OOMABLE}
    /\ keep_going \in BOOLEAN
    /\ time_end = 0
    /\ now \in {0, 1} /\ time_start = now
    /\ child = "none"
    /\ forkCalls = 0 /\ forkFails = 0
    /\ sent = <<>> /\ childSigs = <<>>
    /\ died = [k \in {"bus", "segv", "oom", "other"} |-> 0]
    /\ waitres = <<"none", 0>>
    /\ path = "running"
    /\ forkErr = 0 /\ live = 0 /\ asked = {}
    /\ adjIdle /\ detIdle /\ chIdle

\* time passes
Tick ==
    /\ pc # "done" /\ now < MaxTime
    /\ now' = now + 1
    /\ UNCHANGED <<pc, ooms, segvs, buserrs, rc, signal_idx, not_quiet, retval,
                   summary, keep_going, time_end, time_start, child,
                   forkCalls, forkFails, sent, childSigs, died, waitres, path,
                   forkErr, live, asked, adjVars, detVars, chVars, g_opt_flags>>

\* the run is told to stop
Stop ==
    /\ pc # "done" /\ keep_going
    /\ keep_going' = FALSE
    /\ UNCHANGED <<pc, ooms, segvs, buserrs, rc, signal_idx, not_quiet, retval,
                   summary, now, time_end, time_start, child,
                   forkCalls, forkFails, sent, childSigs, died, waitres, path,
                   forkErr, live, asked, adjVars, detVars, chVars, g_opt_flags>>

-----------------------------------------------------------------------------
(* stress_oomable_child(): the parent's steps *)

\* again: the run is over, return EXIT_SUCCESS
AgainStop ==
    /\ pc = "again"
    /\ StopBeforeSpawn(keep_going, now, time_end)
    /\ pc' = "done" /\ retval' = <<EXIT_SUCCESS>> /\ path' = "stop"
    /\ UNCHANGED <<ooms, segvs, buserrs, rc, signal_idx, not_quiet,
                   summary, keep_going, now, time_end, time_start, child,
                   forkCalls, forkFails, sent, childSigs, died, waitres,
                   forkErr, live, asked, adjVars, detVars, chVars, g_opt_flags>>

\* again: fork() returns the child's pid
ForkChild_ResetIdx ==
    /\ pc = "again"
    /\ ~StopBeforeSpawn(keep_going, now, time_end)
    /\ forkCalls - forkFails < MaxForks
    /\ forkCalls' = forkCalls + 1
    /\ child' = "running"
    /\ childSigs' = <<>>
    /\ live' = live + 1
    /\ signal_idx' = 0
    /\ pc' = "rewait"
    /\ UNCHANGED <<ooms, segvs, buserrs, rc, not_quiet, retval,
                   summary, keep_going, now, time_end, time_start, forkFails,
                   sent, died, waitres, path, forkErr, asked,
                   adjVars, detVars, chVars, g_opt_flags>>

ForkChild ==
    /\ pc = "again"
    /\ ~StopBeforeSpawn(keep_going, now, time_end)
    /\ forkCalls - forkFails < MaxForks
    /\ forkCalls' = forkCalls + 1
    /\ child' = "running"
    /\ childSigs' = <<>>
    /\ live' = live + 1
    /\ pc' = "rewait"
    /\ UNCHANGED <<ooms, segvs, buserrs, rc, signal_idx, not_quiet, retval,
                   summary, keep_going, now, time_end, time_start, forkFails,
                   sent, died, waitres, path, forkErr, asked,
                   adjVars, detVars, chVars, g_opt_flags>>

\* again: fork() fails
ForkFailed ==
    /\ pc = "again"
    /\ ~StopBeforeSpawn(keep_going, now, time_end)
    /\ forkFails < MaxForkFails
    /\ forkCalls' = forkCalls + 1
    /\ forkFails' = forkFails + 1
    /\ \E e \in ForkErrnos :
        /\ forkErr' = e
        /\ IF ForkRetryable(e)
           THEN /\ pc' = "again"
                /\ UNCHANGED <<retval, path>>
           ELSE /\ pc' = "done" /\ retval' = <<-1>> /\ path' = "forkfail"
    /\ UNCHANGED <<ooms, segvs, buserrs, rc, signal_idx, not_quiet,
                   summary, keep_going, now, time_end, time_start, child,
                   sent, childSigs, died, waitres, live, asked,
                   adjVars, detVars, chVars, g_opt_flags>>

\* rewait: waitpid() fails
WaitFailed ==
    /\ pc = "rewait"
    /\ \E e \in WaitErrnos :
        /\ waitres' = <<"error", e>>
        /\ IF WaitGivesUp(e)
           THEN /\ pc' = "report" /\ path' = "nochild" /\ child' = "gone"
                /\ live' = live - 1
                /\ UNCHANGED <<sent, childSigs, signal_idx>>
           ELSE /\ sent' = Append(sent, SignalAt(signal_idx))
                /\ childSigs' = Append(childSigs, SignalAt(signal_idx))
                /\ signal_idx' = NextIndex(signal_idx)
                /\ IF Exhausted(NextIndex(signal_idx))
                   THEN pc' = AfterExhaustion /\ path' = "exhausted"
                   ELSE pc' = "rewait" /\ UNCHANGED path
                /\ UNCHANGED <<child, live>>
    /\ UNCHANGED <<ooms, segvs, buserrs, rc, not_quiet, retval, summary,
                   keep_going, now, time_end, time_start, forkCalls,
                   forkFails, died, forkErr, asked, adjVars, detVars, chVars, g_opt_flags>>

\* rewait: waitpid() returned the child's status
Reaped(status) ==
    LET branch == Classify(status, signal_idx, g_opt_flags)
        c == CountRestart(branch)
    IN  /\ ooms' = c[1] /\ segvs' = c[2] /\ buserrs' = c[3]
        /\ child' = "reaped"
        /\ live' = live - 1
        /\ asked' = asked \cup ConsultsDetector(status)
        /\ CASE branch \in {"buserr", "oom_restart", "segv"} ->
                  /\ pc' = "again"
                  /\ UNCHANGED <<rc, retval, path>>
             [] branch = "oom_stop" ->
                  /\ pc' = "done" /\ retval' = <<EXIT_SUCCESS>>
                  /\ path' = "oomable"
                  /\ UNCHANGED rc
             [] OTHER ->
                  /\ rc' = WEXITSTATUS(status)
                  /\ pc' = "report" /\ path' = "status"
                  /\ UNCHANGED retval
        /\ UNCHANGED <<signal_idx, not_quiet, summary, keep_going, now,
                       time_end, time_start, forkCalls, forkFails, sent,
                       childSigs, forkErr, adjVars, detVars, chVars, g_opt_flags>>

\* the child was terminated by a signal
ChildSignaled ==
    /\ pc = "rewait"
    /\ \E sig \in DeathSignals, core \in BOOLEAN :
        /\ waitres' = <<"signal", sig>>
        /\ died' = [died EXCEPT ![DeathKind(sig, Len(sent))] = @ + 1]
        /\ Reaped(SignalStatus(sig, core))

\* the child exited
ChildExited ==
    /\ pc = "rewait"
    /\ \E code \in ExitCodes :
        /\ waitres' = <<"exit", code>>
        /\ died' = died
        /\ Reaped(ExitStatus(code))

\* report:
Report ==
    /\ pc = "report"
    /\ summary' = IF Reports(ooms, segvs, buserrs, not_quiet)
                  THEN Append(summary, <<ooms, segvs, buserrs>>)
                  ELSE summary
    /\ retval' = <<rc>>
    /\ pc' = "done"
    /\ UNCHANGED <<ooms, segvs, buserrs, rc, signal_idx, not_quiet,
                   keep_going, now, time_end, time_start, child, forkCalls,
                   forkFails, sent, childSigs, died, waitres, path, forkErr,
                   live, asked, adjVars, detVars, chVars, g_opt_flags>>

Next ==
    \/ AgainStop
    \/ ForkChild
    \/ ForkFailed
    \/ WaitFailed
    \/ ChildSignaled
    \/ ChildExited
    \/ Report
    \/ Tick
    \/ Stop

Spec == Init /\ [][Next]_vars

\* the steps of the parent itself
ParentNext ==
    \/ AgainStop
    \/ ForkChild
    \/ ForkFailed
    \/ WaitFailed
    \/ ChildSignaled
    \/ ChildExited
    \/ Report

\* the same program with shorter runs, under the two assumptions that a
\* waitpid() in progress returns and that the clock moves on: the parent
\* takes its next step when it has one, and time passes while it can
LiveNext == Next /\ forkCalls' <= MaxLiveForks

LiveSpec ==
    /\ Init
    /\ [][LiveNext]_vars
    /\ WF_vars(LiveNext /\ ParentNext)
    /\ WF_vars(Tick)

-----------------------------------------------------------------------------
(* Properties of stress_oomable_child() *)

\* the escalation schedule as documented: alarm x 4, terminate, kill
Schedule == <<SIGALRM, SIGALRM, SIGALRM, SIGALRM, SIGTERM, SIGKILL>>
Severity(sig) == IF sig = SIGALRM THEN 1 ELSE IF sig = SIGTERM THEN 2 ELSE 3

\* a step of the parent (not of the clock or of the continuation flag)
ParentStep == now' = now /\ keep_going' = keep_going

\* C1: at every spawn attempt, when the continuation flag is cleared or the
\* deadline has passed the supervisor returns EXIT_SUCCESS and fork() is not
\* called; with the deadline already past at invocation fork() is never called.
C1_PreSpawnCheck ==
    /\ [](time_start > time_end => forkCalls = 0)
    /\ [][forkCalls' # forkCalls => (keep_going /\ now <= time_end)]_vars
    /\ [][(/\ pc = "again" /\ pc' # "again"
           /\ (~keep_going \/ now > time_end))
          => (/\ pc' = "done" /\ retval' = <<EXIT_SUCCESS>>
              /\ forkCalls' = forkCalls)]_vars

\* a retry after a restart is stopped by the deadline
C1_Witness ==
    /\ pc = "done" /\ path = "stop" /\ retval = <<EXIT_SUCCESS>>
    /\ forkCalls > 0 /\ keep_going /\ now > time_end

\* C2: the signals delivered in one invocation are, in order, a prefix of
\* [alarm, alarm, alarm, alarm, terminate, kill]; severity never decreases and
\* the kill signal is delivered at most once.
C2_EscalationPrefix ==
    /\ Len(sent) <= Len(Schedule)
    /\ \A k \in 1 .. Len(sent) : sent[k] = Schedule[k]
    /\ \A k \in 1 .. Len(sent) - 1 : Severity(sent[k]) <= Severity(sent[k + 1])
    /\ Cardinality({k \in 1 .. Len(sent) : sent[k] = SIGKILL}) <= 1

\* the whole schedule was delivered, spread over more than one child
C2_Witness ==
    /\ sent = Schedule
    /\ Len(childSigs) < Len(sent)
    /\ forkCalls - forkFails >= 2

\* C3 as stated: the first signal delivered to a freshly forked child is the
\* first entry of the schedule (the alarm signal).
C3_FirstSignalIsFirstEntry ==
    childSigs # <<>> => childSigs[1] = Schedule[1]

\* C3 amended: the index is set to the start once per invocation and is kept
\* across spawns; the first signal delivered to a child is the schedule entry
\* that follows the signals already delivered to earlier children.
C3_IndexKeptAcrossSpawns ==
    /\ signal_idx = Len(sent)
    /\ childSigs # <<>> =>
          childSigs[1] = Schedule[Len(sent) - Len(childSigs) + 1]

\* a restarted child whose first signal is the terminate signal
C3_Witness ==
    /\ forkCalls - forkFails >= 2
    /\ Len(childSigs) = 1 /\ Len(sent) = 5
    /\ childSigs[1] = SIGTERM

\* C4 as stated: a wait that fails with EINTR is retried with no signal
\* delivered and the index unchanged.
C4_EintrDoesNotEscalate ==
    [][(pc = "rewait" /\ ParentStep /\ waitres' = <<"error", EINTR>>)
       => (sent' = sent /\ signal_idx' = signal_idx /\ pc' = "rewait")]_vars

\* C4 amended: a wait that fails with EINTR escalates like any other wait
\* error but ECHILD: the schedule's current signal is delivered and the index
\* advances by one.
C4_EintrEscalates ==
    [][(pc = "rewait" /\ ParentStep /\ waitres' = <<"error", EINTR>>)
       => (/\ sent' = Append(sent, Schedule[signal_idx + 1])
           /\ signal_idx' = signal_idx + 1)]_vars

\* the first wait failed with EINTR and the alarm signal went out
C4_Witness ==
    /\ waitres = <<"error", EINTR>>
    /\ sent = <<SIGALRM>> /\ signal_idx = 1 /\ pc = "rewait"

\* C5: the child dies by SIGKILL while the index is not at the kill entry:
\* OOMable set => EXIT_SUCCESS is returned, ooms is not incremented and no
\* fork follows; OOMable not set => ooms is incremented by one and control
\* goes back to again.
C5_OomBranch ==
    /\ [][(/\ pc = "rewait" /\ child' = "reaped"
           /\ waitres' = <<"signal", SIGKILL>> /\ signal_idx < 5)
          => IF OPT_FLAGS_OOMABLE \in g_opt_flags
             THEN /\ pc' = "done" /\ retval' = <<EXIT_SUCCESS>>
                  /\ ooms' = ooms /\ forkCalls' = forkCalls
             ELSE /\ ooms' = ooms + 1 /\ pc' = "again"
                  /\ segvs' = segvs /\ buserrs' = buserrs]_vars
    /\ [][pc = "done" => forkCalls' = forkCalls]_vars

\* an OOMable run stopped by a kill after earlier restarts and escalation
C5_Witness ==
    /\ pc = "done" /\ path = "oomable"
    /\ OPT_FLAGS_OOMABLE \in g_opt_flags
    /\ waitres = <<"signal", SIGKILL>>
    /\ ooms = 0 /\ buserrs > 0 /\ Len(sent) = 4

\* C6: when the invocation ends with a child exiting normally with code c,
\* the counters (and the summary line, when one is printed) equal the numbers
\* of OOM-classified, segfault and bus-error deaths, and c is returned.
C6_CounterAggregation ==
    (pc = "done" /\ path = "status" /\ waitres[1] = "exit") =>
        /\ retval = <<waitres[2]>>
        /\ ooms = died["oom"] /\ segvs = died["segv"] /\ buserrs = died["bus"]
        /\ summary = IF not_quiet /\ died["oom"] + died["segv"] + died["bus"] > 0
                     THEN << <<died["oom"], died["segv"], died["bus"]>> >>
                     ELSE <<>>

\* three bus errors, two segfaults, one OOM kill, then exit code 2
C6_Witness ==
    /\ pc = "done" /\ waitres = <<"exit", 2>> /\ retval = <<2>>
    /\ died["bus"] = 3 /\ died["segv"] = 2 /\ died["oom"] = 1
    /\ summary = << <<1, 2, 3>> >>

\* C7 as stated: with the schedule exhausted and the child not reaped the
\* supervisor returns a failure status.
C7_ExhaustionFails ==
    (pc = "done" /\ path = "exhausted") => retval # <<EXIT_SUCCESS>>

\* C7 amended: with the schedule exhausted (all six signals delivered, the
\* last one the kill signal) and the child not reaped, the supervisor returns
\* EXIT_SUCCESS, the value rc was initialised with.
C7_ExhaustionReturnsSuccess ==
    (pc = "done" /\ path = "exhausted") =>
        /\ retval = <<EXIT_SUCCESS>>
        /\ sent = Schedule

\* every wait of a single child failed until the kill signal went out
C7_Witness ==
    /\ pc = "done" /\ path = "exhausted"
    /\ childSigs = Schedule /\ child = "running"

-----------------------------------------------------------------------------
(* stress_set_adjustment() and stress_set_oom_adjustment(): helpers *)

OOM_SCORE_ADJ_MIN == <<"-", "1", "0", "0", "0">>
OOM_SCORE_ADJ_MAX == <<"1", "0", "0", "0">>
OOM_SCORE_ADJ_ZERO == <<"0">>
OOM_ADJ_NO_OOM == <<"-", "1", "7">>
OOM_ADJ_MIN == <<"-", "1", "6">>
OOM_ADJ_MAX == <<"1", "5">>

PROC_OOM_SCORE_ADJ == "/proc/self/oom_score_adj"
PROC_OOM_ADJ == "/proc/self/oom_adj"

\* for (i = 0; i < 32; i++)
AdjustRetries == 32

\* high_priv = (getuid() == 0) && (geteuid() == 0)
HighPriv(u, e) == u = 0 /\ e = 0

\* if (args && (g_opt_flags & OPT_FLAGS_OOMABLE)) make_killable = true
MakeKillable_IgnoreArgs(a, k, flags) == k \/ OPT_FLAGS_OOMABLE \in flags

MakeKillable(a, k, flags) == k \/ (a # NULL /\ OPT_FLAGS_OOMABLE \in flags)

\* the text chosen for /proc/self/oom_score_adj
ModernStr_MinWhenKillable(mk, hp) ==
    IF mk THEN OOM_SCORE_ADJ_MIN
    ELSE IF hp THEN OOM_SCORE_ADJ_MAX ELSE OOM_SCORE_ADJ_ZERO

ModernStr(mk, hp) ==
    IF mk THEN OOM_SCORE_ADJ_MAX
    ELSE IF hp THEN OOM_SCORE_ADJ_MIN ELSE OOM_SCORE_ADJ_ZERO

\* the text chosen for /proc/self/oom_adj
LegacyStr(mk, hp) ==
    IF mk THEN OOM_ADJ_MAX
    ELSE IF hp THEN OOM_ADJ_NO_OOM ELSE OOM_ADJ_MIN

\* (saved_errno != EAGAIN) && (saved_errno != EINTR) does not hold
Retryable_OnlyEagain(e) == e = EAGAIN

Retryable(e) == e = EAGAIN \/ e = EINTR

\* the modern interface's result sends us to the legacy interface
FallsBack_OnAnyFailure(r) == r # 0

FallsBack(r) == ~((r = 0) \/ (r # -ENOENT))

-----------------------------------------------------------------------------
(* the adjuster's environment *)

OpenErrnos == {ENOENT, EACCES}
WriteErrnos == {EAGAIN, EINTR, EACCES, EINVAL}
Uids == {0, 1000}
ArgsValues == {NULL, <<0>>, <<1>>}

AdjInit ==
    /\ apc = "start"
    /\ args \in ArgsValues
    /\ killable \in BOOLEAN
    /\ uid \in Uids /\ euid \in Uids
    /\ g_opt_flags \in SUBSET {OPT_FLAGS_OOMABLE, OPT_FLAGS_NO_OOM_ADJUST}
    /\ high_priv = FALSE /\ make_killable = FALSE
    /\ procname = "" /\ str = <<>> /\ i = 0 /\ ret = 0
    /\ nwrites = 0 /\ onlyRetry = TRUE /\ wrote = {} /\ opened = {}
    /\ nopen = 0 /\ n = 0
    /\ result = [p \in {PROC_OOM_SCORE_ADJ, PROC_OOM_ADJ} |-> <<"none", 0>>]
    /\ supIdle /\ detIdle /\ chIdle

-----------------------------------------------------------------------------
(* stress_set_oom_adjustment(): entry, up to the call on the modern interface *)

SetOomAdjustment ==
    /\ apc = "start"
    /\ IF OPT_FLAGS_NO_OOM_ADJUST \in g_opt_flags
       THEN /\ apc' = "done"
            /\ UNCHANGED <<high_priv, make_killable, procname, str>>
       ELSE /\ high_priv' = HighPriv(uid, euid)
            /\ make_killable' = MakeKillable(args, killable, g_opt_flags)
            /\ str' = ModernStr(MakeKillable(args, killable, g_opt_flags),
                                HighPriv(uid, euid))
            /\ procname' = PROC_OOM_SCORE_ADJ
            /\ apc' = "open"
    /\ i' = 0 /\ nwrites' = 0 /\ onlyRetry' = TRUE
    /\ UNCHANGED <<args, killable, uid, euid, ret, wrote, opened, nopen,
                   result, n, supVars, detVars, chVars, g_opt_flags>>

(* stress_set_adjustment(): one turn of the loop is open, then write + close *)

\* fd = open(procname, O_WRONLY) succeeds
OpenOk ==
    /\ apc = "open"
    /\ opened' = opened \cup {procname}
    /\ nopen' = nopen + 1
    /\ apc' = "write"
    /\ UNCHANGED <<args, killable, uid, euid, high_priv, make_killable,
                   procname, str, i, ret, nwrites, onlyRetry, wrote, result,
                   n, supVars, detVars, chVars, g_opt_flags>>

\* fd < 0: return -errno
OpenFails ==
    /\ apc = "open"
    /\ \E e \in OpenErrnos :
        /\ ret' = -e
        /\ result' = [result EXCEPT ![procname] = <<"open", e>>]
    /\ opened' = opened \cup {procname}
    /\ apc' = "ret"
    /\ UNCHANGED <<args, killable, uid, euid, high_priv, make_killable,
                   procname, str, i, nwrites, onlyRetry, wrote, nopen, n,
                   supVars, detVars, chVars, g_opt_flags>>

\* if (n > 0) return 0;
WriteSucceeded_NotNegative(k) == k >= 0

WriteSucceeded(k) == k > 0

\* i++ and the loop test; falling out of the loop returns -1
NextTurn ==
    /\ i' = i + 1
    /\ IF i + 1 < AdjustRetries
       THEN /\ apc' = "open"
            /\ UNCHANGED <<ret, result>>
       ELSE /\ apc' = "ret"
            /\ ret' = -1
            /\ result' = [result EXCEPT ![procname] = <<"exhausted", 0>>]

\* n = write(fd, str, len) with n > 0, close, return 0
WriteOk ==
    /\ apc = "write"
    /\ n' = Len(str) /\ WriteSucceeded(Len(str))
    /\ nwrites' = nwrites + 1
    /\ wrote' = wrote \cup {<<procname, str>>}
    /\ onlyRetry' = FALSE
    /\ nopen' = nopen - 1
    /\ ret' = 0
    /\ result' = [result EXCEPT ![procname] = <<"ok", 0>>]
    /\ apc' = "ret"
    /\ UNCHANGED <<args, killable, uid, euid, high_priv, make_killable,
                   procname, str, i, opened, supVars, detVars, chVars, g_opt_flags>>

\* n = 0: close and go round again
WriteZero ==
    /\ apc = "write"
    /\ nwrites' = nwrites + 1
    /\ wrote' = wrote \cup {<<procname, str>>}
    /\ onlyRetry' = FALSE
    /\ nopen' = nopen - 1
    /\ n' = 0
    /\ IF WriteSucceeded(0)
       THEN /\ ret' = 0
            /\ result' = [result EXCEPT ![procname] = <<"ok", 0>>]
            /\ apc' = "ret"
            /\ i' = i
       ELSE NextTurn
    /\ UNCHANGED <<args, killable, uid, euid, high_priv, make_killable,
                   procname, str, opened, supVars, detVars, chVars, g_opt_flags>>

\* n < 0: close; go round again on EAGAIN and EINTR, else return -saved_errno
WriteFails ==
    /\ apc = "write"
    /\ nwrites' = nwrites + 1
    /\ wrote' = wrote \cup {<<procname, str>>}
    /\ nopen' = nopen - 1
    /\ n' = -1
    /\ \E e \in WriteErrnos :
        /\ onlyRetry' = (onlyRetry /\ e \in {EAGAIN, EINTR})
        /\ IF Retryable(e)
           THEN NextTurn
           ELSE /\ ret' = -e
                /\ result' = [result EXCEPT ![procname] = <<"write", e>>]
                /\ apc' = "ret"
                /\ i' = i
    /\ UNCHANGED <<args, killable, uid, euid, high_priv, make_killable,
                   procname, str, opened, supVars, detVars, chVars, g_opt_flags>>

(* stress_set_oom_adjustment(): after stress_set_adjustment() returned *)

AdjustmentReturned ==
    /\ apc = "ret"
    /\ IF procname = PROC_OOM_SCORE_ADJ /\ FallsBack(ret)
       THEN /\ str' = LegacyStr(make_killable, high_priv)
            /\ procname' = PROC_OOM_ADJ
            /\ i' = 0 /\ nwrites' = 0 /\ onlyRetry' = TRUE
            /\ apc' = "open"
       ELSE /\ apc' = "done"
            /\ UNCHANGED <<str, procname, i, nwrites, onlyRetry>>
    /\ UNCHANGED <<args, killable, uid, euid, high_priv, make_killable, ret,
                   wrote, opened, nopen, result, n, supVars, detVars, chVars,
                   g_opt_flags>>

AdjNext ==
    \/ SetOomAdjustment
    \/ OpenOk
    \/ OpenFails
    \/ WriteOk
    \/ WriteZero
    \/ WriteFails
    \/ AdjustmentReturned

AdjSpec == AdjInit /\ [][AdjNext]_vars

-----------------------------------------------------------------------------
(* Properties of stress_set_oom_adjustment() and stress_set_adjustment() *)

\* the number a /proc oom file reads from the text written to it
DigitValue(c) ==
    CASE c = "0" -> 0 [] c = "1" -> 1 [] c = "2" -> 2 [] c = "3" -> 3
      [] c = "4" -> 4 [] c = "5" -> 5 [] c = "6" -> 6 [] c = "7" -> 7
      [] c = "8" -> 8 [] c = "9" -> 9

RECURSIVE DigitsValue(_)
DigitsValue(t) ==
    IF t = <<>> THEN 0
    ELSE 10 * DigitsValue(SubSeq(t, 1, Len(t) - 1)) + DigitValue(t[Len(t)])

StrToInt(t) ==
    IF t # <<>> /\ t[1] = "-" THEN -DigitsValue(Tail(t)) ELSE DigitsValue(t)

\* C8: the legacy interface is attempted if and only if the call on the
\* modern interface failed with ENOENT; after a modern success, another
\* error or retry exhaustion (and with no adjustment at all) it is untouched.
C8_FallbackOnlyOnEnoent ==
    /\ PROC_OOM_ADJ \in opened =>
          /\ result[PROC_OOM_SCORE_ADJ][1] \in {"open", "write"}
          /\ result[PROC_OOM_SCORE_ADJ][2] = ENOENT
    /\ (apc = "done" /\ result[PROC_OOM_SCORE_ADJ][2] = ENOENT) =>
          PROC_OOM_ADJ \in opened
    /\ result[PROC_OOM_ADJ] # <<"none", 0>> => PROC_OOM_ADJ \in opened

\* the modern file does not exist and the legacy file took the value
C8_Witness ==
    /\ apc = "done"
    /\ result[PROC_OOM_SCORE_ADJ] = <<"open", ENOENT>>
    /\ result[PROC_OOM_ADJ] = <<"ok", 0>>
    /\ <<PROC_OOM_ADJ, OOM_ADJ_NO_OOM>> \in wrote

\* C9: a call whose writes all fail with EAGAIN or EINTR makes exactly 32
\* write attempts and then returns a failure; a write failing with another
\* error ends the call at once with minus that error, with no more attempt.
C9_RetryBound ==
    /\ [](/\ nwrites <= 32
          /\ (apc = "ret" /\ onlyRetry /\ result[procname][1] # "open") =>
                 (nwrites = 32 /\ ret < 0 /\ result[procname][1] = "exhausted")
          /\ (apc = "ret" /\ result[procname][1] = "write") =>
                 ret = -result[procname][2])
    /\ [][(/\ apc = "write" /\ apc' # "write"
           /\ \E e \in WriteErrnos \ {EAGAIN, EINTR} :
                 result'[procname] = <<"write", e>>)
          => (apc' = "ret" /\ nwrites' = nwrites + 1)]_vars
    /\ [][(apc = "ret" /\ result[procname][1] = "write")
          => (nwrites' = nwrites /\ wrote' = wrote)]_vars

\* thirty-two writes, all refused with EAGAIN or EINTR
C9_Witness ==
    /\ apc = "ret" /\ onlyRetry /\ nwrites = 32 /\ i = 32
    /\ ret = -1 /\ result[procname] = <<"exhausted", 0>>

\* C10: every value handed to write() is in the range of its interface
\* ([-1000,1000] modern; -17 or [-16,15] legacy); a killable request writes
\* only the maximum (1000 / 15), a request that is not killable never does:
\* privileged it writes -1000 / -17, unprivileged 0 / -16.
C10_ValueByRequest ==
    \A w \in wrote :
        LET modern == w[1] = PROC_OOM_SCORE_ADJ
            v == StrToInt(w[2])
            privileged == uid = 0 /\ euid = 0
        IN  /\ w[1] \in {PROC_OOM_SCORE_ADJ, PROC_OOM_ADJ}
            /\ IF modern THEN v \in -1000 .. 1000
                         ELSE v = -17 \/ v \in -16 .. 15
            /\ (killable \/ make_killable) =>
                   v = (IF modern THEN 1000 ELSE 15)
            /\ (~make_killable /\ privileged) =>
                   v = (IF modern THEN -1000 ELSE -17)
            /\ (~make_killable /\ ~privileged) =>
                   v = (IF modern THEN 0 ELSE -16)

\* an unprivileged request that is not killable reached the legacy file
C10_Witness ==
    /\ apc = "done" /\ ~killable /\ ~make_killable /\ uid # 0
    /\ wrote = {<<PROC_OOM_ADJ, OOM_ADJ_MIN>>}

\* the call got past the no-oom-adjust test and chose its values
AdjustmentChosen ==
    apc \in {"open", "write", "ret", "done"}
    /\ OPT_FLAGS_NO_OOM_ADJUST \notin g_opt_flags

\* C11 as stated: for every call, a null context included, the effective
\* killability that chooses the written value is killable OR policy OOMable.
C11_KillableOrOomable ==
    AdjustmentChosen =>
        /\ make_killable = (killable \/ OPT_FLAGS_OOMABLE \in g_opt_flags)
        /\ \A w \in wrote :
              (w[2] \in {OOM_SCORE_ADJ_MAX, OOM_ADJ_MAX})
                  = (killable \/ OPT_FLAGS_OOMABLE \in g_opt_flags)

\* C11 amended: the effective killability is killable OR (the context is not
\* null AND policy OOMable); a call with a null context (the main process)
\* ignores the policy bit.
C11_KillableOrChildOomable ==
    AdjustmentChosen =>
        LET effective ==
                killable \/ (args # NULL /\ OPT_FLAGS_OOMABLE \in g_opt_flags)
        IN  /\ make_killable = effective
            /\ \A w \in wrote :
                  (w[2] \in {OOM_SCORE_ADJ_MAX, OOM_ADJ_MAX}) = effective

\* the main process under policy OOMable is protected, not made killable
C11_Witness ==
    /\ apc = "done" /\ args = NULL /\ ~killable
    /\ OPT_FLAGS_OOMABLE \in g_opt_flags
    /\ uid = 0 /\ euid = 0
    /\ wrote = {<<PROC_OOM_SCORE_ADJ, OOM_SCORE_ADJ_MIN>>}


\* C13: a fork() failure with EAGAIN or ENOMEM is never fatal, the parent
\* goes back to the check before the fork; any other fork() failure makes it
\* return a negative status at once, with no further fork(); and a negative
\* status is returned in that case only, every other return being 0 or a
\* child's exit code in 0..255.
C13_ForkFailure ==
    /\ [][forkFails' = forkFails + 1 =>
            IF forkErr' \in {EAGAIN, ENOMEM}
            THEN pc' = "again" /\ retval' = <<>>
            ELSE pc' = "done" /\ retval' = <<-1>> /\ path' = "forkfail"]_vars
    /\ [][path = "forkfail" => forkCalls' = forkCalls]_vars
    /\ [](pc = "done" =>
            /\ (retval[1] < 0) = (path = "forkfail")
            /\ retval[1] \in {-1} \cup (0..255)
            /\ (path = "forkfail") = (forkErr \notin {0, EAGAIN, ENOMEM}))

\* a child was restarted and the fork() after it was not implemented
C13_Witness ==
    /\ pc = "done" /\ path = "forkfail" /\ retval = <<-1>>
    /\ forkErr = ENOSYS /\ forkFails = 1 /\ forkCalls >= 2


\* a successful waitpid() reported a death by SIGKILL
KillDeathReaped == live' = live - 1 /\ waitres' = <<"signal", SIGKILL>>

\* the parent took the OOM branch: it counted an OOM and restarts, or it
\* stopped because the run is OOMable
OomBranchTaken ==
    \/ ooms' = ooms + 1 /\ pc' = "again"
    \/ pc' = "done" /\ path' = "oomable"

\* C14 as stated: a death by SIGKILL is classified as an OOM kill exactly when
\* the parent's own escalation has not delivered SIGKILL to the child, and
\* this holds for every number (0 to 5) of escalation signals already
\* delivered.
C14_OomUnlessOwnKill ==
    [][KillDeathReaped =>
          (OomBranchTaken = (\A k \in 1..Len(sent) : sent[k] # SIGKILL))]_vars

\* C14 amended: a death by SIGKILL is classified as an OOM kill exactly when
\* fewer than five escalation signals have been delivered in the invocation
\* (the next entry of the schedule is not SIGKILL); with five delivered, none
\* of them SIGKILL, the death is not an OOM kill: no counter changes and the
\* parent goes to the report with status 0.
C14_OomUnlessKillIsNext ==
    /\ [][KillDeathReaped => (OomBranchTaken = (Len(sent) < 5))]_vars
    /\ [][(KillDeathReaped /\ Len(sent) = 5) =>
            /\ \A k \in 1..5 : sent[k] # SIGKILL
            /\ pc' = "report" /\ rc' = 0 /\ path' = "status"
            /\ ooms' = ooms /\ segvs' = segvs /\ buserrs' = buserrs]_vars

\* five signals were sent, none of them SIGKILL, the child then died of a
\* SIGKILL that is not counted as an OOM
C14_Witness ==
    /\ pc = "done" /\ path = "status" /\ waitres = <<"signal", SIGKILL>>
    /\ Len(sent) = 5 /\ ooms = 0 /\ retval = <<0>>


\* C16 as stated: after a death by SIGKILL the parent hands the child's pid to
\* stress_process_oomed() before it chooses between the OOM branch and the
\* other outcomes.
C16_DetectorAsked ==
    [][KillDeathReaped => asked' # {}]_vars

\* C16 amended: the parent never calls stress_process_oomed(); after a death
\* by SIGKILL it chooses its branch in the same step, from the terminating
\* signal, the escalation index and the OOMable option alone.
C16_DecidesWithoutDetector ==
    /\ [](asked = {})
    /\ [][KillDeathReaped =>
            /\ asked' = {}
            /\ pc' = (IF signal_idx = 5 THEN "report"
                      ELSE IF OPT_FLAGS_OOMABLE \in g_opt_flags THEN "done"
                      ELSE "again")]_vars

\* a death by SIGKILL was counted as an OOM with no question to the detector
C16_Witness ==
    /\ pc = "again" /\ waitres = <<"signal", SIGKILL>> /\ live = 0
    /\ ooms = 1 /\ asked = {}

Restarts == ooms + segvs + buserrs

\* C17 as stated: a return of an invocation that is not quiet, with a counter
\* above zero, has been preceded by exactly one summary line, whatever the
\* way of returning.
C17_SummaryOnEveryReturn ==
    (pc = "done" /\ not_quiet /\ Restarts > 0) => Len(summary) = 1

\* C17 amended: the summary line is written exactly once, with the three
\* counters, when the return goes through report: (child's exit or other
\* signal, ECHILD, schedule used up), the invocation is not quiet and a counter
\* is above zero; the returns at again:, after a fatal fork() failure and at
\* the OOMable stop write no summary, whatever the counters.
C17_SummaryOnReportOnly ==
    pc = "done" =>
        IF path \in {"status", "nochild", "exhausted"}
           /\ not_quiet /\ Restarts > 0
        THEN summary = << <<ooms, segvs, buserrs>> >>
        ELSE summary = <<>>

\* a restart was counted, then the deadline stopped the parent at again:
\* and no summary was written
C17_Witness ==
    /\ pc = "done" /\ path = "stop" /\ not_quiet
    /\ Restarts > 0 /\ summary = <<>>

\* a successful waitpid() reported a death by a signal that is neither
\* SIGBUS nor SIGSEGV nor a SIGKILL taken for an OOM kill
OtherDeathReaped ==
    /\ live' = live - 1 /\ waitres'[1] = "signal"
    /\ waitres'[2] \notin {SIGBUS, SIGSEGV}
    /\ waitres'[2] = SIGKILL => signal_idx = 5

OtherDeathReturned ==
    /\ pc = "done" /\ path = "status" /\ waitres[1] = "signal"

\* C19 as stated: after such a death no counter changes, the parent does not
\* fork again, it goes to report, and the status it returns is derived from
\* the terminating signal and is not the status of a successful exit.
C19_StatusTellsSignal ==
    /\ [][OtherDeathReaped =>
            /\ ooms' = ooms /\ segvs' = segvs /\ buserrs' = buserrs
            /\ pc' = "report"]_vars
    /\ [][(waitres[1] = "signal" /\ path = "status") =>
            forkCalls' = forkCalls]_vars
    /\ [](OtherDeathReturned => retval # <<EXIT_SUCCESS>>)

\* C19 amended: after such a death no counter changes, the parent does not
\* fork again, it goes to report, and the status it returns is WEXITSTATUS
\* of the wait status, which is 0 for every death by signal: the same value a
\* successful exit of the child gives.
C19_OtherDeathReturnsSuccess ==
    /\ [][OtherDeathReaped =>
            /\ ooms' = ooms /\ segvs' = segvs /\ buserrs' = buserrs
            /\ pc' = "report" /\ rc' = EXIT_SUCCESS]_vars
    /\ [][(waitres[1] = "signal" /\ path = "status") =>
            forkCalls' = forkCalls]_vars
    /\ [](OtherDeathReturned => retval = <<EXIT_SUCCESS>>)

\* the child died of SIGABRT and the parent returned 0
C19_Witness ==
    /\ OtherDeathReturned /\ waitres[2] = SIGABRT /\ retval = <<0>>

\* C20: at most one child is alive and not reaped at any time; a fork()
\* succeeds only when no child is left, the one before it having been reaped
\* by a waitpid() that reported a death by signal; after waitpid() failed with
\* ECHILD or the schedule was used up the parent never forks again.
C20_OneChildAtATime ==
    /\ [](live \in {0, 1})
    /\ [][live' = live + 1 =>
            /\ live = 0
            /\ child = "none" \/ (child = "reaped" /\ waitres[1] = "signal")]_vars
    /\ [][(path \in {"nochild", "exhausted"}) => forkCalls' = forkCalls]_vars

\* after an OOM restart the schedule was used up on the second child, which
\* is left alive at the return
C20_Witness ==
    /\ pc = "done" /\ path = "exhausted" /\ live = 1 /\ ooms >= 1


\* C15: with waitpid() always returning and the clock passing the deadline,
\* every invocation returns; the wait loop sends at most 6 signals and is at
\* the report or beyond once the sixth is sent; and once the deadline has
\* passed or the flag is cleared, a parent at again: forks no more and
\* returns from there.
C15_Terminates ==
    /\ <>(pc = "done")
    /\ [](Len(sent) <= 6)
    /\ [](Len(sent) = 6 => pc \in {"report", "done"})
    /\ [][(pc = "again" /\ StopBeforeSpawn(keep_going, now, time_end)) =>
            /\ forkCalls' = forkCalls
            /\ pc' \in {"again", "done"}]_vars
    /\ (pc = "again" /\ StopBeforeSpawn(keep_going, now, time_end))
           ~> (pc = "done" /\ path = "stop")

\* the parent returned after restarts, a retried fork() and a used-up schedule
C15_Witness ==
    /\ pc = "done" /\ path = "exhausted" /\ Len(sent) = 6
    /\ Restarts >= 1 /\ forkFails = 1


-----------------------------------------------------------------------------
(* stress_process_oomed() *)

\* the three texts strstr() looks for
Process == <<"p", "r", "o", "c", "e", "s", "s">>
OutOfMemory ==
    <<"O", "u", "t", " ", "o", "f", " ", "m", "e", "m", "o", "r", "y">>
OomReaper == <<"o", "o", "m", "_", "r", "e", "a", "p", "e", "r">>

\* strstr(buf, needle): the 1-based place of the first occurrence, 0 for NULL
Occurrences(buf, needle) ==
    {k \in 1..(Len(buf) - Len(needle) + 1) :
        SubSeq(buf, k, k + Len(needle) - 1) = needle}

StrStr(buf, needle) ==
    LET hits == Occurrences(buf, needle)
    IN  IF hits = {} THEN 0 ELSE CHOOSE k \in hits : \A j \in hits : k <= j

\* sscanf(s, "%10" SCNdMAX, &v): white space is skipped, then a sign and
\* digits are taken, 10 characters at most
ScanWidth == 10

IsSpace(c) == c = " "
IsDigit(c) == c \in {"0", "1", "2", "3", "4", "5", "6", "7", "8", "9"}

RECURSIVE SkipSpace(_)
SkipSpace(t) == IF t # <<>> /\ IsSpace(t[1]) THEN SkipSpace(Tail(t)) ELSE t

RECURSIVE DigitRun(_, _)
DigitRun(t, width) ==
    IF width > 0 /\ t # <<>> /\ IsDigit(t[1])
    THEN <<t[1]>> \o DigitRun(Tail(t), width - 1)
    ELSE <<>>

\* <<value returned by sscanf(), value stored>>
ScanInt(s) ==
    LET t == SkipSpace(s)
        signed == t # <<>> /\ t[1] \in {"+", "-"}
        digits == IF signed THEN DigitRun(Tail(t), ScanWidth - 1)
                  ELSE DigitRun(t, ScanWidth)
    IN  IF t = <<>> THEN <<-1, 0>>
        ELSE IF digits = <<>> THEN <<0, 0>>
        ELSE IF signed /\ t[1] = "-" THEN <<1, -DigitsValue(digits)>>
        ELSE <<1, DigitsValue(digits)>>

\* the test of one record: does it say that p was OOM killed
RecordNames_WithoutPhrase(buf, p) ==
    LET ptr == StrStr(buf, Process)
    IN  /\ ptr # 0
        /\ LET r == ScanInt(SubSeq(buf, ptr + 7, Len(buf)))
           IN  r[1] = 1 /\ r[2] = p

RecordNames(buf, p) ==
    LET ptr == StrStr(buf, Process)
    IN  /\ ptr # 0
        /\ (StrStr(buf, OutOfMemory) # 0 \/ StrStr(buf, OomReaper) # 0)
        /\ LET r == ScanInt(SubSeq(buf, ptr + 7, Len(buf)))
           IN  r[1] = 1 /\ r[2] = p

(* the kernel log *)

MaxReads == 2

\* "Out of memory: Kill process 4242"
KillLine ==
    <<"O", "u", "t", " ", "o", "f", " ", "m", "e", "m", "o", "r", "y", ":",
      " ", "K", "i", "l", "l", " ", "p", "r", "o", "c", "e", "s", "s", " ",
      "4", "2", "4", "2">>

\* "oom_reaper: reaped process 4241"
ReaperLine ==
    <<"o", "o", "m", "_", "r", "e", "a", "p", "e", "r", ":", " ", "r", "e",
      "a", "p", "e", "d", " ", "p", "r", "o", "c", "e", "s", "s", " ", "4",
      "2", "4", "1">>

\* "process 4242 exited"
ExitLine ==
    <<"p", "r", "o", "c", "e", "s", "s", " ", "4", "2", "4", "2", " ", "e",
      "x", "i", "t", "e", "d">>

\* "Out of memory: Killed process 42420"
LongPidLine ==
    <<"O", "u", "t", " ", "o", "f", " ", "m", "e", "m", "o", "r", "y", ":",
      " ", "K", "i", "l", "l", "e", "d", " ", "p", "r", "o", "c", "e", "s",
      "s", " ", "4", "2", "4", "2", "0">>

\* "Out of memory and no killable processes"
NoTaskLine ==
    <<"O", "u", "t", " ", "o", "f", " ", "m", "e", "m", "o", "r", "y", " ",
      "a", "n", "d", " ", "n", "o", " ", "k", "i", "l", "l", "a", "b", "l",
      "e", " ", "p", "r", "o", "c", "e", "s", "s", "e", "s">>

\* "Memory cgroup out of memory: Killed process 4242"
CgroupLine ==
    <<"M", "e", "m", "o", "r", "y", " ", "c", "g", "r", "o", "u", "p", " ",
      "o", "u", "t", " ", "o", "f", " ", "m", "e", "m", "o", "r", "y", ":",
      " ", "K", "i", "l", "l", "e", "d", " ", "p", "r", "o", "c", "e", "s",
      "s", " ", "4", "2", "4", "2">>

\* "oom_reaper: process of 4242: reaped process 4242"
TwoTokenLine ==
    <<"o", "o", "m", "_", "r", "e", "a", "p", "e", "r", ":", " ", "p", "r",
      "o", "c", "e", "s", "s", " ", "o", "f", " ", "4", "2", "4", "2", ":",
      " ", "r", "e", "a", "p", "e", "d", " ", "p", "r", "o", "c", "e", "s",
      "s", " ", "4", "2", "4", "2">>

\* read() may also return 0 bytes
EmptyRecord == <<>>

Records ==
    {KillLine, ReaperLine, ExitLine, LongPidLine, NoTaskLine, CgroupLine,
     TwoTokenLine, EmptyRecord}

Pids == {4241, 4242}

DetInit ==
    /\ dpc = "open" /\ pid \in Pids /\ fd = 0 /\ oomed = FALSE
    /\ kmsg = <<>> /\ dret = <<>>
    /\ supIdle /\ adjIdle /\ chIdle /\ g_opt_flags = {}

\* fd = open("/dev/kmsg", ...) fails: return oomed
KmsgOpenFails ==
    /\ dpc = "open"
    /\ dret' = <<oomed>> /\ dpc' = "done"
    /\ UNCHANGED <<pid, fd, oomed, kmsg, supVars, adjVars, chVars, g_opt_flags>>

KmsgOpenOk ==
    /\ dpc = "open"
    /\ fd' = fd + 1 /\ dpc' = "read"
    /\ UNCHANGED <<pid, oomed, kmsg, dret, supVars, adjVars, chVars,
                   g_opt_flags>>

\* ret = read(fd, buf, sizeof(buf) - 1) with ret < 0: break
KmsgReadFails ==
    /\ dpc = "read"
    /\ dpc' = "close"
    /\ UNCHANGED <<pid, fd, oomed, kmsg, dret, supVars, adjVars, chVars,
                   g_opt_flags>>

\* read() returns one record, which is tested
KmsgRead ==
    /\ dpc = "read"
    /\ Len(kmsg) < MaxReads
    /\ \E buf \in Records :
        /\ kmsg' = Append(kmsg, buf)
        /\ IF RecordNames(buf, pid)
           THEN oomed' = TRUE /\ dpc' = "close"
           ELSE oomed' = oomed /\ dpc' = "read"
    /\ UNCHANGED <<pid, fd, dret, supVars, adjVars, chVars, g_opt_flags>>

\* (void)close(fd); return oomed;
KmsgClose ==
    /\ dpc = "close"
    /\ fd' = fd - 1 /\ dret' = <<oomed>> /\ dpc' = "done"
    /\ UNCHANGED <<pid, oomed, kmsg, supVars, adjVars, chVars, g_opt_flags>>

DetNext ==
    \/ KmsgOpenFails
    \/ KmsgOpenOk
    \/ KmsgReadFails
    \/ KmsgRead
    \/ KmsgClose

DetSpec == DetInit /\ [][DetNext]_vars


(* Properties of stress_process_oomed() *)

\* the records above as a reader takes them: the pid each one reports as
\* OOM killed, 0 when it reports none
Fixtures ==
    {<<KillLine, 4242>>, <<ReaperLine, 4241>>, <<ExitLine, 0>>,
     <<LongPidLine, 42420>>, <<NoTaskLine, 0>>, <<CgroupLine, 0>>,
     <<TwoTokenLine, 0>>, <<EmptyRecord, 0>>}

Reported(buf) == (CHOOSE f \in Fixtures : f[1] = buf)[2]

Contains(buf, w) ==
    \E k \in 1..Len(buf) :
        /\ k + Len(w) - 1 <= Len(buf)
        /\ \A j \in 1..Len(w) : buf[k + j - 1] = w[j]

\* the text that follows the first "process" of a record that has one
AfterProcess(buf) ==
    LET k == CHOOSE at \in 1..Len(buf) :
                 /\ SubSeq(buf, at, at + 6) = Process
                 /\ \A m \in 1..(at - 1) : SubSeq(buf, m, m + 6) # Process
    IN  SubSeq(buf, k + 7, Len(buf))

ChunkMatches(buf, p) ==
    /\ Contains(buf, Process)
    /\ Contains(buf, OutOfMemory) \/ Contains(buf, OomReaper)
    /\ ScanInt(AfterProcess(buf)) = <<1, p>>

\* C12: stress_process_oomed(pid) returns true exactly when a record read
\* before the first failed read has "process", has "Out of memory" or
\* "oom_reaper", and the integer scanned right after "process" is pid; it
\* returns false when the device cannot be opened, when no record matches and
\* when "process" comes with neither phrase; "Out of memory: Kill process
\* 4242" gives true for 4242 and false for 4241.
C12_Detector ==
    /\ dpc = "done" =>
          /\ dret = <<\E k \in 1..Len(kmsg) : ChunkMatches(kmsg[k], pid)>>
          /\ dret = <<\E k \in 1..Len(kmsg) : Reported(kmsg[k]) = pid>>
          /\ kmsg = <<>> => dret = <<FALSE>>
          /\ fd = 0
    /\ (dpc = "done" /\ kmsg = <<KillLine>>) => dret = <<pid = 4242>>
    /\ (dpc = "done" /\ kmsg = <<ExitLine>>) => dret = <<FALSE>>
    /\ dpc # "done" => dret = <<>>

\* asked about 4242, the call read a line with "process 4242" and no OOM
\* phrase, then the kill line, and returned true
C12_Witness ==
    /\ dpc = "done" /\ pid = 4242 /\ kmsg = <<ExitLine, KillLine>>
    /\ dret = <<TRUE>>


-----------------------------------------------------------------------------
(* stress_oomable_child(): the child, from fork() to _exit() *)

STRESS_OOMABLE_DROP_CAP == "STRESS_OOMABLE_DROP_CAP"

\* the second argument of the child's stress_set_oom_adjustment() call
ChildKillable == TRUE

\* the test before the workload: stress_continue(args) and the deadline
RunsWorkload_NoDeadline(cont, t, tend) == cont

RunsWorkload(cont, t, tend) == ~(~cont \/ t > tend)

\* what a check saw: <<continuation flag, deadline passed>>
Saw == <<keep_going, now > time_end>>

ChildInit ==
    /\ cpc = "check" /\ flag \in SUBSET {STRESS_OOMABLE_DROP_CAP}
    /\ steps = <<>> /\ seen = <<>> /\ crc = InitialRc /\ cexit = <<>>
    /\ pc = "idle" /\ ooms = 0 /\ segvs = 0 /\ buserrs = 0 /\ rc = InitialRc
    /\ signal_idx = 0 /\ not_quiet = FALSE /\ retval = <<>> /\ summary = <<>>
    /\ keep_going \in BOOLEAN /\ time_end = 0 /\ now \in {0, 1}
    /\ time_start = now
    /\ child = "none" /\ forkCalls = 0 /\ forkFails = 0 /\ sent = <<>>
    /\ childSigs = <<>> /\ died = <<>> /\ waitres = <<"none", 0>>
    /\ path = "idle" /\ forkErr = 0 /\ live = 0 /\ asked = {}
    /\ adjIdle /\ detIdle /\ g_opt_flags = {}

\* if (!stress_continue(args)) _exit(EXIT_SUCCESS);
ChildCheck ==
    /\ cpc = "check"
    /\ seen' = Append(seen, Saw)
    /\ IF ~keep_going
       THEN cexit' = <<EXIT_SUCCESS>> /\ cpc' = "exited"
       ELSE cexit' = cexit /\ cpc' = "alarm"
    /\ UNCHANGED <<flag, steps, crc, supVars, adjVars, detVars, g_opt_flags>>

\* stress_parent_died_alarm();
ChildAlarm ==
    /\ cpc = "alarm"
    /\ steps' = Append(steps, <<"stress_parent_died_alarm">>)
    /\ cpc' = "adjust"
    /\ UNCHANGED <<flag, seen, crc, cexit, supVars, adjVars, detVars,
                   g_opt_flags>>

\* stress_set_oom_adjustment(args, true);
ChildAdjust ==
    /\ cpc = "adjust"
    /\ steps' = Append(steps, <<"stress_set_oom_adjustment", ChildKillable>>)
    /\ cpc' = "dropcap"
    /\ UNCHANGED <<flag, seen, crc, cexit, supVars, adjVars, detVars,
                   g_opt_flags>>

\* if (flag & STRESS_OOMABLE_DROP_CAP) stress_drop_capabilities(args->name);
ChildDropCap ==
    /\ cpc = "dropcap"
    /\ steps' = IF STRESS_OOMABLE_DROP_CAP \in flag
                THEN Append(steps, <<"stress_drop_capabilities">>)
                ELSE steps
    /\ cpc' = "recheck"
    /\ UNCHANGED <<flag, seen, crc, cexit, supVars, adjVars, detVars,
                   g_opt_flags>>

\* the check before the workload
ChildRecheck ==
    /\ cpc = "recheck"
    /\ seen' = Append(seen, Saw)
    /\ IF RunsWorkload(keep_going, now, time_end)
       THEN cexit' = cexit /\ cpc' = "func"
       ELSE cexit' = <<EXIT_SUCCESS>> /\ cpc' = "exited"
    /\ UNCHANGED <<flag, steps, crc, supVars, adjVars, detVars, g_opt_flags>>

\* ret = func(args, context); pr_fail_check(&rc);
\* if (rc != EXIT_SUCCESS) ret = rc; _exit(ret);
ChildFunc ==
    /\ cpc = "func"
    /\ steps' = Append(steps, <<"func">>)
    /\ \E r \in ExitCodes, c \in ExitCodes :
        /\ c = crc \/ c # EXIT_SUCCESS
        /\ crc' = c
        /\ cexit' = <<IF c # EXIT_SUCCESS THEN c ELSE r>>
    /\ cpc' = "exited"
    /\ UNCHANGED <<flag, seen, supVars, adjVars, detVars, g_opt_flags>>

ChildNext ==
    \/ ChildCheck
    \/ ChildAlarm
    \/ ChildAdjust
    \/ ChildDropCap
    \/ ChildRecheck
    \/ ChildFunc
    \/ cpc # "exited" /\ Tick
    \/ cpc # "exited" /\ Stop

ChildSpec == ChildInit /\ [][ChildNext]_vars


(* Properties of the child *)

\* the calls of a child that runs its workload, in the order of the claim
ChildOrder ==
    <<<<"stress_parent_died_alarm">>, <<"stress_set_oom_adjustment", TRUE>>>>
    \o (IF STRESS_OOMABLE_DROP_CAP \in flag
        THEN <<<<"stress_drop_capabilities">>>> ELSE <<>>)
    \o <<<<"func">>>>

WorkloadInvoked == \E k \in 1..Len(steps) : steps[k] = <<"func">>

\* C18: the child makes its steps in the order continuation check,
\* dead-parent alarm, adjuster call with killable true, capability drop when
\* asked for, second check of flag and deadline, workload; the workload is
\* invoked only if the flag was set at both checks and the deadline had not
\* passed at the second, otherwise the child exits with success without it;
\* and the child always ends in _exit(), never in the parent's code.
C18_ChildPath ==
    /\ [](steps = SubSeq(ChildOrder, 1, Len(steps)))
    /\ [](steps # <<>> => Len(seen) >= 1)
    /\ [](Len(seen) = 2 =>
            /\ Len(steps) >= Len(ChildOrder) - 1
            /\ (Len(steps) = Len(ChildOrder)) = WorkloadInvoked)
    /\ [](WorkloadInvoked => Len(seen) = 2)
    /\ [](cpc = "exited" =>
            /\ WorkloadInvoked =
                  (Len(seen) = 2 /\ seen[1][1] /\ seen[2][1] /\ ~seen[2][2])
            /\ ~WorkloadInvoked => cexit = <<EXIT_SUCCESS>>
            /\ Len(cexit) = 1)
    /\ [](cpc # "exited" => cexit = <<>>)
    /\ [](pc = "idle" /\ retval = <<>>)
    /\ [][cpc = "exited" => cpc' = "exited" /\ steps' = steps]_vars

\* the child was made killable and dropped its capabilities, then found the
\* deadline passed and left without running the workload
C18_Witness ==
    /\ cpc = "exited" /\ cexit = <<EXIT_SUCCESS>>
    /\ steps = <<<<"stress_parent_died_alarm">>,
                 <<"stress_set_oom_adjustment", TRUE>>,
                 <<"stress_drop_capabilities">>>>
    /\ seen = <<<<TRUE, FALSE>>, <<TRUE, TRUE>>>>


\* a step that reads signals[signal_idx]: the kill() after a failed
\* waitpid(), or the OOM test after a death by signal was reaped
IndexesSchedule ==
    \/ sent' # sent
    \/ live' = live - 1 /\ waitres'[1] = "signal"

\* C21: whenever signals[] is indexed the index is within 0..5; the index
\* never decreases during an invocation; once it is 6 the parent goes to the
\* report without indexing the array or waiting again.
C21_IndexInBounds ==
    /\ [][IndexesSchedule => signal_idx \in 0..(Len(signals) - 1)]_vars
    /\ [](pc = "rewait" => signal_idx \in 0..(Len(signals) - 1))
    /\ [](signal_idx \in 0..Len(signals))
    /\ [][signal_idx' >= signal_idx]_vars
    /\ [](signal_idx = Len(signals) => pc \in {"report", "done"})
    /\ [][signal_idx = Len(signals) =>
            /\ ~IndexesSchedule
            /\ waitres' = waitres /\ forkCalls' = forkCalls]_vars

\* the index was carried over a restart and reached 6 on a later child, the
\* parent standing at the report
C21_Witness ==
    /\ pc = "report" /\ signal_idx = 6 /\ path = "exhausted"
    /\ forkCalls - forkFails >= 2 /\ sent[6] = SIGKILL


\* a write() of this step returned 0
ZeroByteWrite == apc = "write" /\ nwrites' = nwrites + 1 /\ n' = 0

\* C22: in stress_set_adjustment() a write() that returns 0 is neither a
\* success nor an aborting failure: the file is closed and, while fewer than
\* 32 attempts were made, opened and written again; after the 32nd attempt
\* the call returns -1; and at every return each descriptor the call opened
\* is closed.
C22_ZeroByteWrite ==
    /\ [][ZeroByteWrite =>
            /\ nopen' = nopen - 1
            /\ i' = i + 1
            /\ IF i + 1 < AdjustRetries
               THEN apc' = "open" /\ ret' = ret /\ result' = result
               ELSE /\ apc' = "ret" /\ ret' = -1
                    /\ result'[procname] = <<"exhausted", 0>>]_vars
    /\ [][(apc = "open" /\ apc' = "write") =>
            nopen' = 1 /\ procname \in opened']_vars
    /\ [](nwrites <= AdjustRetries /\ i <= AdjustRetries)
    /\ [](nopen = (IF apc = "write" THEN 1 ELSE 0))

\* 32 attempts were made, the last write() returned 0, and the call returns
\* -1 with its descriptor closed
C22_Witness ==
    /\ apc = "ret" /\ n = 0 /\ i = AdjustRetries /\ nwrites = AdjustRetries
    /\ ret = -1 /\ nopen = 0
    /\ result[procname] = <<"exhausted", 0>>

=============================================================================
